---- MODULE Spec2Model ----
(***************************************************************************)
(* Client conversation controller of the ArXiv Reader chat: ChatbotUI      *)
(* (src/src/public/js/chatbot-ui.js) driving ChatbotAPIClient              *)
(* (src/src/public/js/chatbot-api-client.js).  One step of the model is    *)
(* one JavaScript task: a user event handler, or the resumption of an      *)
(* awaited request together with everything that runs synchronously and    *)
(* in microtasks after it.                                                 *)
(***************************************************************************)
EXTENDS Integers, Sequences, FiniteSets, TLC

\* ---------------------------------------------------------------- bounds
MaxSends == 1        \* sends one ChatbotUI completes
MaxEvents == 3       \* lines the server writes on the stream responses in all
MaxWire == 3         \* bytes written by the server and not yet read
MaxTasks == 2        \* awaited thread requests in flight at the same time
MaxThreads == 2      \* thread ids the server ever hands out
MaxErrors == 2       \* errors handed to ErrorHandler.handleError
MaxCalls == 3        \* calls of ThemeManager.loadTheme, those of init included
MaxChecks == 4       \* calls of ValidationUtils.checkRateLimit
MaxClock == 4        \* milliseconds that pass between the calls of checkRateLimit

\* ------------------------------------------------------------ vocabulary
None == "none"
Paper == "p1"
Inputs == {"hi "}
\* a text of MaxMessageLength + 1 characters, and the texts of the input field
MaxMessageLength == 10000
LongText == "long"
AllInputs == {" ", "hi ", LongText}
Payloads == {"a", "<"}
NL == [k |-> "nl", j |-> FALSE, error |-> "", chunk |-> "", done |-> FALSE, id |-> ""]

\* The JSON objects the server may put on a data line (j = FALSE: the text
\* after "data: " is not valid JSON), and the blank separator line.
ChunkEv(p) == [k |-> "data", j |-> TRUE, error |-> "", chunk |-> p, done |-> FALSE, id |-> ""]
DoneEv == [k |-> "data", j |-> TRUE, error |-> "", chunk |-> "", done |-> TRUE, id |-> "m1"]
ErrorEv == [k |-> "data", j |-> TRUE, error |-> "E", chunk |-> "", done |-> FALSE, id |-> ""]
JunkEv == [k |-> "data", j |-> FALSE, error |-> "", chunk |-> "", done |-> FALSE, id |-> ""]
BlankEv == [k |-> "blank", j |-> FALSE, error |-> "", chunk |-> "", done |-> FALSE, id |-> ""]
Events == {ChunkEv(p) : p \in Payloads} \cup {DoneEv, ErrorEv, JunkEv, BlankEv}
CoreEvents == {ChunkEv("a"), DoneEv, ErrorEv}

\* A data line on the wire is "data: " + the first part of the JSON text,
\* the rest of the JSON text, and the line feed; a blank line is a line feed.
HeadTok(ev) == [ev EXCEPT !.k = "head"]
TailTok(ev) == [ev EXCEPT !.k = "tail"]
LineBytes(ev) == IF ev.k = "blank" THEN <<NL>> ELSE <<HeadTok(ev), TailTok(ev), NL>>

\* String.prototype.trim on the inputs of the model.
Trim(s) == IF s = " " THEN "" ELSE IF s = "hi " THEN "hi" ELSE s

\* String.prototype.length of the texts of the model
TextLength(s) ==
    IF s = "" THEN 0
    ELSE IF s = " " THEN 1
    ELSE IF s = "hi" THEN 2
    ELSE IF s = "hi " THEN 3
    ELSE MaxMessageLength + 1

\* escapeHtml, and the text a browser shows for the markup it was given.
EscapeHtml(c) == IF c = "<" THEN "&lt;" ELSE c
ShownChar(h) == IF h = "&lt;" THEN "<" ELSE h
ShownText(html) == [i \in 1..Len(html) |-> ShownChar(html[i])]

\* ---------------------------------------------------------------- state
VARIABLES
    currentPaperId, currentThreadId, threads, messages, isStreaming,
    chatInput, sendDisabled, status, dom, welcome, threadList,
    tasks,
    pc, send, buffer, wire, srvOpen, srvEmitted,
    srvThreads, srvCount, srvUpd, srvNext,
    sendNo, cbLog, expected, obs,
    errorLog, shown,
    px,
    tm, handled, rl

uiVars == <<currentPaperId, currentThreadId, threads, messages, isStreaming,
            chatInput, sendDisabled, status, dom, welcome, threadList>>
streamVars == <<pc, send, buffer, wire, srvOpen, srvEmitted>>
srvVars == <<srvThreads, srvCount, srvUpd, srvNext>>
histVars == <<sendNo, cbLog, expected, obs>>
\* the other objects of the page: the ErrorHandler's log and what it has shown;
\* px: the Express /api proxy's request to the Python backend
\* tm: the ThemeManager, the document's root element and head, localStorage;
\* handled: the calls of handleError and clearErrorLog so far; rl: the rate
\* limiter's localStorage entry, the clock and the calls of checkRateLimit
otherVars == <<tm, handled, rl>>
appVars == <<errorLog, shown, px, otherVars>>
vars == <<uiVars, tasks, streamVars, srvVars, histVars, appVars>>

\* ------------------------------------------------------------- sequences
RECURSIVE SeqFilter(_, _)
SeqFilter(s, keep) ==
    IF s = <<>> THEN <<>>
    ELSE (IF keep[Head(s)] THEN <<Head(s)>> ELSE <<>>) \o SeqFilter(Tail(s), keep)

Range(s) == {s[i] : i \in 1..Len(s)}

\* buffer.split('\n'): the pieces between line feeds; the last piece is the
\* text after the last line feed (empty when the text ends with one).
RECURSIVE SplitFrom(_, _)
SplitFrom(s, cur) ==
    IF s = <<>> THEN <<cur>>
    ELSE IF Head(s).k = "nl" THEN <<cur>> \o SplitFrom(Tail(s), <<>>)
    ELSE SplitFrom(Tail(s), Append(cur, Head(s)))

Split(s) == SplitFrom(s, <<>>)
Front(s) == SubSeq(s, 1, Len(s) - 1)
Last(s) == s[Len(s)]

\* ------------------------------------------------------------------ DOM
\* Children of #chat-messages with class chat-message, in document order.
\* sid: the element's .message-text carries id="streaming-text".
NoId == <<"none", 0>>
NoStatus == [type |-> None, text |-> ""]
ErrSpan == "<span class=text-danger>Error</span>"

Div(id, cls, streaming, html) ==
    [id |-> id, cls |-> cls, streaming |-> streaming, sid |-> streaming, html |-> html]

InDom(d, id) == \E i \in 1..Len(d) : d[i].id = id
IndexOf(d, id) == CHOOSE i \in 1..Len(d) : d[i].id = id
ElementById(d, id) == d[IndexOf(d, id)]

\* showStatus / clearStatus
ShowStatus(text, type) == [type |-> type, text |-> text]

\* formatMessageContent on the message texts of the model (no markdown in them)
FormatMessageContent(content) == IF content = "" THEN <<>> ELSE <<content>>

\* addMessage: hides the welcome element and appends the message element
AddMessage(st, id, role, content, streaming) ==
    [st EXCEPT !.welcome = FALSE,
               !.dom = Append(@, Div(id, role, streaming, FormatMessageContent(content)))]

\* showTypingIndicator
ShowTypingIndicator(st, id) ==
    [st EXCEPT !.welcome = FALSE, !.dom = Append(@, Div(id, "typing", FALSE, <<>>))]

\* removeTypingIndicator
RemoveTypingIndicator(st, id) ==
    [st EXCEPT !.dom = SeqFilter(@, [e \in Range(@) |-> e.id # id])]

\* loadPaperThreads up to its await: the request for the current paper
RefreshTask(pid) == [op |-> "refresh", at |-> "threads", tid |-> 0, pid |-> pid]

\* updateStreamingMessage
UpdateStreamingMessage(st, id, chunk) ==
    IF ~InDom(st.dom, id) THEN [st EXCEPT !.threw = TRUE]
    ELSE LET i == IndexOf(st.dom, id) IN
         IF st.dom[i].sid
         THEN [st EXCEPT !.dom[i].html = Append(@, EscapeHtml(chunk))]
         ELSE st

\* completeStreamingMessage
CompleteStreamingMessage(st, id) ==
    IF ~InDom(st.dom, id) THEN [st EXCEPT !.threw = TRUE]
    ELSE LET i == IndexOf(st.dom, id) IN
         [st EXCEPT !.dom[i].streaming = FALSE,
                    !.dom[i].sid = FALSE,
                    !.tasks = @ \cup {RefreshTask(st.pid)},
                    !.obs.refreshed = TRUE]

\* handleStreamingError
HandleStreamingError(st, id) ==
    IF ~InDom(st.dom, id) THEN [st EXCEPT !.threw = TRUE]
    ELSE LET i == IndexOf(st.dom, id) IN
         [st EXCEPT !.dom[i].html = IF st.dom[i].sid THEN <<ErrSpan>> ELSE @,
                    !.dom[i].sid = FALSE,
                    !.dom[i].streaming = FALSE,
                    !.status = ShowStatus("Chat error", "error"),
                    !.obs.errShown = TRUE]

\* ------------------------------------- the callbacks sendMessage passes
MsgId(n) == <<"msg", n>>
UserId(n) == <<"user", n>>
TypingId(n) == <<"typing", n>>

OnChunk(st, chunk) ==
    LET s1 == IF st.send.firstChunk
              THEN LET r == RemoveTypingIndicator(st, st.send.typingId)
                       a == AddMessage(r, MsgId(st.send.no), "assistant", "", TRUE)
                   IN [a EXCEPT !.send.responseId = MsgId(st.send.no),
                                !.send.firstChunk = FALSE,
                                !.obs.created = @ + 1]
              ELSE st
    IN UpdateStreamingMessage(s1, s1.send.responseId, chunk)

OnComplete(st, messageId) ==
    IF st.send.responseId # NoId
    THEN CompleteStreamingMessage(st, st.send.responseId)
    ELSE st

\* onError without the showStatus of its else branch
OnErrorUnshown(st, error) ==
    LET r == RemoveTypingIndicator(st, st.send.typingId) IN
    IF r.send.responseId # NoId
    THEN HandleStreamingError(r, r.send.responseId)
    ELSE r

OnError(st, error) ==
    LET r == RemoveTypingIndicator(st, st.send.typingId) IN
    IF r.send.responseId # NoId
    THEN HandleStreamingError(r, r.send.responseId)
    ELSE [r EXCEPT !.status = ShowStatus("Chat error", "error"), !.obs.errShown = TRUE]

Logged(st, cb, arg) == [st EXCEPT !.cbLog = Append(@, [cb |-> cb, arg |-> arg]), !.threw = FALSE]

\* ------------------------------------------------------- the thread store
\* The backend behind /api/chatbot: the threads of the paper, the number of
\* messages and the updated_at stamp of each.
ThreadIds == 1..MaxThreads

MaxOf(S) == CHOOSE x \in S : \A y \in S : y <= x
Clock == MaxOf({0} \cup {srvUpd[t] : t \in ThreadIds}) + 1

\* GET /thread/<id>/history
History(t) == [i \in 1..srvCount[t] |->
                 [id |-> t * 100 + i, role |-> IF i % 2 = 1 THEN "user" ELSE "assistant"]]

\* the exchange of a completed generation is appended to the thread
Persisted(t) ==
    /\ srvCount' = [srvCount EXCEPT ![t] = @ + 2]
    /\ srvUpd' = [srvUpd EXCEPT ![t] = Clock]

\* GET /threads/<paper>: the thread records, in the order of their ids
RECURSIVE ThreadRecords(_)
ThreadRecords(S) ==
    IF S = {} THEN <<>>
    ELSE LET t == CHOOSE x \in S : \A y \in S : x <= y
         IN <<[id |-> t, updated_at |-> srvUpd[t]]>> \o ThreadRecords(S \ {t})

\* Array.prototype.sort with (a, b) => new Date(b.updated_at) - new Date(a.updated_at):
\* insertion into a list kept in descending order, equal stamps in input order.
RECURSIVE InsertDesc(_, _)
InsertDesc(x, s) ==
    IF s = <<>> THEN <<x>>
    ELSE IF Head(s).updated_at >= x.updated_at THEN <<Head(s)>> \o InsertDesc(x, Tail(s))
    ELSE <<x>> \o s

RECURSIVE SortDesc(_)
SortDesc(s) == IF s = <<>> THEN <<>> ELSE InsertDesc(Last(s), SortDesc(Front(s)))

\* -------------------------------------------- streamMessage: the read loop
\* line.startsWith('data: ')
StartsWithData(line) == Len(line) >= 1 /\ line[1].k = "head"

\* JSON.parse(line.slice(6)) returns (TRUE) or throws (FALSE)
ParseOk(line) ==
    /\ Len(line) = 2
    /\ line[2] = TailTok(line[1])
    /\ line[1].j

NoteTerminal(st, kind) == IF st.obs.term = None THEN [st EXCEPT !.obs.term = kind] ELSE st

\* The body of the for loop for one line; ret: the function returned.  An
\* exception of a callback is caught by the catch around JSON.parse, which
\* logs it and goes on with the next line.
ProcessLine(st, line) ==
    IF ~StartsWithData(line) \/ ~ParseOk(line) THEN st
    ELSE LET data == line[1] IN
         IF data.error # ""
         THEN LET e == OnError(Logged(NoteTerminal(st, "error"), "error", data.error), data.error)
              IN IF e.threw THEN e ELSE [e EXCEPT !.ret = TRUE]
         ELSE LET c == IF data.chunk # ""
                       THEN OnChunk(Logged(st, "chunk", data.chunk), data.chunk)
                       ELSE [st EXCEPT !.threw = FALSE]
              IN IF c.threw \/ ~data.done THEN c
                 ELSE LET d == OnComplete(Logged(NoteTerminal(c, "done"), "complete", data.id), data.id)
                      IN IF d.threw THEN d ELSE [d EXCEPT !.ret = TRUE]

RECURSIVE ProcessLines(_, _)
ProcessLines(st, lines) ==
    IF lines = <<>> \/ st.ret THEN st
    ELSE ProcessLines(ProcessLine(st, Head(lines)), Tail(lines))

\* lines.pop(): what stays in the buffer after a read
KeepIncomplete(parts) == Last(parts)

\* The state the callbacks of the running send read and write.
Ctx ==
    [dom |-> dom, welcome |-> welcome, status |-> status, send |-> send,
     cbLog |-> cbLog, tasks |-> tasks, obs |-> obs,
     cur |-> currentThreadId, pid |-> currentPaperId,
     ret |-> FALSE, threw |-> FALSE]

Commit(st) ==
    /\ dom' = st.dom
    /\ welcome' = st.welcome
    /\ status' = st.status
    /\ cbLog' = st.cbLog
    /\ tasks' = st.tasks

\* sendMessage's finally block, run when streamMessage's promise settles.
\* The locals of the call (responseId, isFirstChunk, typingId) end with it.
Returned(s) == [s EXCEPT !.responseId = NoId, !.firstChunk = TRUE, !.typingId = NoId]
SettleStuck(st) ==
    /\ send' = Returned(st.send)
    /\ obs' = [st.obs EXCEPT !.ignored = 0]
    /\ isStreaming' = isStreaming
    /\ sendDisabled' = FALSE
    /\ pc' = "idle"
    /\ buffer' = <<>>
    /\ wire' = <<>>
    /\ srvOpen' = FALSE
Settle(st) ==
    /\ send' = Returned(st.send)
    /\ obs' = [st.obs EXCEPT !.ignored = 0]
    /\ isStreaming' = FALSE
    /\ sendDisabled' = FALSE
    /\ pc' = "idle"
    /\ buffer' = <<>>
    /\ wire' = <<>>
    /\ srvOpen' = FALSE

\* streamMessage's catch block: onError(error); when onError throws, the
\* promise rejects and sendMessage's own catch block runs.
CatchError(st) ==
    LET e == OnError(Logged([st EXCEPT !.obs.failed = TRUE], "error", "net"), "net") IN
    IF e.threw
    THEN [RemoveTypingIndicator(e, e.send.typingId)
            EXCEPT !.status = ShowStatus("Chat error", "error"), !.obs.errShown = TRUE]
    ELSE e

\* What the lines written so far oblige the client to deliver: the payloads
\* of the chunk lines before the first terminal line, and whether a terminal
\* line (term) and a done line (done) were written.
NoneExpected == [chunks |-> <<>>, term |-> FALSE, done |-> FALSE]
IsTerminal(ev) == ev.k = "data" /\ ev.j /\ (ev.error # "" \/ ev.done)
Expect(x, ev) ==
    [chunks |-> IF ~x.term /\ ev.k = "data" /\ ev.j /\ ev.error = "" /\ ev.chunk # ""
                THEN Append(x.chunks, ev.chunk) ELSE x.chunks,
     term |-> x.term \/ IsTerminal(ev),
     done |-> x.done \/ (IsTerminal(ev) /\ ev.error = "")]

\* ------------------------------------------------------------ sendMessage
NewObs == [term |-> None, refreshed |-> FALSE, created |-> 0,
           errShown |-> FALSE, failed |-> FALSE, ignored |-> 0, opened |-> 0]
NoSend == [no |-> 0, thread |-> 0, responseId |-> NoId, firstChunk |-> TRUE, typingId |-> NoId]

\* stream requests that have not settled
InFlight == IF pc = "idle" THEN 0 ELSE 1

\* ValidationUtils.validateChatMessage
ValidateChatMessage(message) ==
    IF message = "" THEN [valid |-> FALSE, error |-> "Message cannot be empty", sanitized |-> ""]
    ELSE LET trimmed == Trim(message) IN
         IF TextLength(trimmed) = 0
         THEN [valid |-> FALSE, error |-> "Message cannot be empty", sanitized |-> ""]
         ELSE IF TextLength(trimmed) > MaxMessageLength
         THEN [valid |-> FALSE, error |-> "Message too long (max 10,000 characters)", sanitized |-> ""]
         ELSE [valid |-> TRUE, error |-> "", sanitized |-> EscapeHtml(trimmed)]

\* the early return of sendMessage
RejectsWithoutThread(message) == message = "" \/ isStreaming
RejectsWhenNotStreaming(message) == message = "" \/ currentThreadId = 0
Rejects(message) == message = "" \/ isStreaming \/ currentThreadId = 0

SendMessage ==
    LET message == Trim(chatInput) IN
    IF Rejects(message)
    THEN /\ obs' = [obs EXCEPT !.ignored = IF message = "" THEN @
                                           ELSE IF currentThreadId = 0 THEN 2 ELSE 1]
         /\ UNCHANGED <<uiVars, tasks, streamVars, srvVars, sendNo, cbLog, expected, appVars>>
    ELSE /\ sendNo - InFlight < MaxSends
         /\ sendNo' = sendNo + 1
         /\ chatInput' = ""
         /\ sendDisabled' = TRUE
         /\ isStreaming' = TRUE
         /\ LET n == sendNo + 1
                s0 == [Ctx EXCEPT !.send = [no |-> n, thread |-> currentThreadId,
                                            responseId |-> NoId, firstChunk |-> TRUE,
                                            typingId |-> TypingId(n)],
                                  !.cbLog = <<>>,
                                  !.obs = [NewObs EXCEPT !.opened = obs.opened]]
                s1 == AddMessage(s0, UserId(n), "user", message, FALSE)
                s2 == ShowTypingIndicator(s1, TypingId(n))
            IN Commit(s2) /\ send' = s2.send /\ obs' = s2.obs
         /\ pc' = "fetch"
         /\ expected' = NoneExpected
         /\ UNCHANGED <<currentPaperId, currentThreadId, threads, messages, threadList,
                        buffer, wire, srvOpen, srvEmitted, srvVars, appVars>>

\* click on #send-btn (a disabled button does not fire click)
SendClick == ~sendDisabled /\ SendMessage

\* keydown of the Enter key in #chat-input (with Shift it only edits the text)
KeydownEnter(shift) ==
    IF ~shift THEN SendMessage ELSE UNCHANGED vars

\* input event on #chat-input (fired when the text changes)
TypeInput(v) ==
    /\ v # chatInput
    /\ chatInput' = v
    /\ sendDisabled' = ((Trim(v) = "") \/ isStreaming)
    /\ UNCHANGED <<currentPaperId, currentThreadId, threads, messages, isStreaming,
                   status, dom, welcome, threadList, tasks, streamVars, srvVars, histVars>>
    /\ UNCHANGED appVars

\* await fetch(...) resolves with an OK response: the reader is created.
FetchOk ==
    /\ pc = "fetch"
    /\ pc' = "read"
    /\ srvOpen' = TRUE
    /\ buffer' = <<>>
    /\ wire' = <<>>
    /\ UNCHANGED <<uiVars, tasks, send, srvEmitted, srvVars, histVars>>
    /\ UNCHANGED appVars

\* fetch rejects, or resolves with a non-OK status (throw new Error(HTTP ..))
FetchFail ==
    /\ pc = "fetch"
    /\ LET st == CatchError(Ctx) IN Commit(st) /\ Settle(st)
    /\ UNCHANGED <<currentPaperId, currentThreadId, threads, messages, chatInput,
                   threadList, srvEmitted, srvVars, sendNo, expected>>
    /\ UNCHANGED appVars

\* The server writes one more line of the response.
ServerWrite(ev) ==
    /\ pc = "read" /\ srvOpen
    /\ srvEmitted < MaxEvents
    /\ Len(wire) + Len(LineBytes(ev)) <= MaxWire
    /\ wire' = wire \o LineBytes(ev)
    /\ srvEmitted' = srvEmitted + 1
    /\ expected' = Expect(expected, ev)
    /\ IF ev.done /\ ~expected.done /\ send.thread \in srvThreads
       THEN Persisted(send.thread)
       ELSE UNCHANGED <<srvCount, srvUpd>>
    /\ UNCHANGED <<uiVars, tasks, pc, send, buffer, srvOpen, srvThreads, srvNext, sendNo, cbLog, obs>>
    /\ UNCHANGED appVars

\* The server ends the response body.
ServerClose ==
    /\ pc = "read" /\ srvOpen
    /\ srvOpen' = FALSE
    /\ UNCHANGED <<uiVars, tasks, pc, send, buffer, wire, srvEmitted, srvVars, histVars>>
    /\ UNCHANGED appVars

\* await reader.read() resolves with the next k bytes of the body.
StreamRead(k) ==
    /\ pc = "read"
    /\ k \in 1..Len(wire)
    /\ LET parts == Split(buffer \o SubSeq(wire, 1, k))
           st == ProcessLines(Ctx, Front(parts))
       IN /\ Commit(st)
          /\ IF st.ret
             THEN Settle(st)
             ELSE /\ send' = st.send
                  /\ obs' = st.obs
                  /\ buffer' = KeepIncomplete(parts)
                  /\ wire' = SubSeq(wire, k + 1, Len(wire))
                  /\ UNCHANGED <<pc, srvOpen, isStreaming, sendDisabled>>
    /\ UNCHANGED <<currentPaperId, currentThreadId, threads, messages, chatInput,
                   threadList, srvEmitted, srvVars, sendNo, expected>>
    /\ UNCHANGED appVars

\* reader.read() resolves with done: the loop breaks and the function returns.
StreamEnd ==
    /\ pc = "read" /\ ~srvOpen /\ wire = <<>>
    /\ Settle(Ctx)
    /\ UNCHANGED <<currentPaperId, currentThreadId, threads, messages, chatInput,
                   status, dom, welcome, threadList, tasks, srvEmitted, srvVars,
                   sendNo, cbLog, expected>>
    /\ UNCHANGED appVars

\* reader.read() rejects (the connection broke).
ReadFail ==
    /\ pc = "read"
    /\ LET st == CatchError(Ctx) IN Commit(st) /\ Settle(st)
    /\ UNCHANGED <<currentPaperId, currentThreadId, threads, messages, chatInput,
                   threadList, srvEmitted, srvVars, sendNo, expected>>
    /\ UNCHANGED appVars

\* ErrorHandler: no error has been handled (n: calls of handleError so far,
\* cleared: how many there had been at the latest clearErrorLog).
NoneHandled == [n |-> 0, cleared |-> 0]

\* ------------------------------------------------- the Express /api proxy
\* The proxy's axios request to the backend: waiting (the await of axios has
\* not resolved), open (the backend has not ended its response), body (the
\* bytes the backend has written so far, which axios collects).
NoUpstream == [waiting |-> FALSE, open |-> FALSE, body |-> <<>>]

\* JSON.stringify of a string, as res.json(response.data) sends it: a quote,
\* the text with its line feeds and quotes escaped, a quote.
QuoteTok == [NL EXCEPT !.k = "quote"]
JsonEscape(tok) == [tok EXCEPT !.k = CASE tok.k = "nl" -> "escaped nl"
                                      [] tok.k = "head" -> "escaped head"
                                      [] tok.k = "tail" -> "escaped tail"
                                      [] OTHER -> tok.k]
JsonStringify(text) == <<QuoteTok>> \o [i \in 1..Len(text) |-> JsonEscape(text[i])] \o <<QuoteTok>>
\* the longest body the proxy can send: MaxEvents lines between two quotes
MaxBody == 3 * MaxEvents + 2

\* app.use('/api', ...): the handler starts and awaits axios(...).
ProxyRequest ==
    /\ pc = "fetch"
    /\ ~px.waiting
    /\ px' = [waiting |-> TRUE, open |-> TRUE, body |-> <<>>]
    /\ UNCHANGED <<uiVars, tasks, streamVars, srvVars, histVars, errorLog, shown, otherVars>>

\* The backend writes one more line of its response to the proxy.
BackendWrite(ev) ==
    /\ px.waiting /\ px.open
    /\ srvEmitted < MaxEvents
    /\ px' = [px EXCEPT !.body = @ \o LineBytes(ev)]
    /\ srvEmitted' = srvEmitted + 1
    /\ expected' = Expect(expected, ev)
    /\ IF ev.done /\ ~expected.done /\ send.thread \in srvThreads
       THEN Persisted(send.thread)
       ELSE UNCHANGED <<srvCount, srvUpd>>
    /\ UNCHANGED <<uiVars, tasks, pc, send, buffer, wire, srvOpen, srvThreads, srvNext,
                   sendNo, cbLog, obs, errorLog, shown, otherVars>>

\* The backend ends its response.
BackendEnd ==
    /\ px.waiting /\ px.open
    /\ px' = [px EXCEPT !.open = FALSE]
    /\ UNCHANGED <<uiVars, tasks, streamVars, srvVars, histVars, errorLog, shown, otherVars>>

\* await axios(...) resolves, which it does once the response has ended;
\* res.status(response.status).json(response.data) sends the whole body at
\* once, and the browser's fetch resolves with that response.
ProxyRespond ==
    /\ pc = "fetch"
    /\ px.waiting /\ ~px.open
    /\ pc' = "read"
    /\ buffer' = <<>>
    /\ wire' = JsonStringify(px.body)
    /\ srvOpen' = FALSE
    /\ px' = NoUpstream
    /\ UNCHANGED <<uiVars, tasks, send, srvEmitted, srvVars, histVars, errorLog, shown, otherVars>>

\* axios rejects (no backend, or an error status): the catch block answers
\* with an error status, and streamMessage throws on !response.ok.
ProxyError ==
    /\ pc = "fetch"
    /\ px.waiting /\ px.open /\ px.body = <<>>
    /\ LET st == CatchError(Ctx) IN Commit(st) /\ Settle(st)
    /\ px' = NoUpstream
    /\ UNCHANGED <<currentPaperId, currentThreadId, threads, messages, chatInput,
                   threadList, srvEmitted, srvVars, sendNo, expected, errorLog, shown, otherVars>>

\* ------------------------------------------------------------ ThemeManager
\* themeConfigs' keys (three of them), an id that is not configured, and the
\* values localStorage can hold under 'arxiv-reader-theme' (None: no entry).
ThemeIds == {"light", "dark", "nord"}
DefaultTheme == "light"
UnknownTheme == "neon"
StoredThemes == ThemeIds \cup {UnknownTheme, None}
\* the themes with a stylesheet of their own
CssThemes == ThemeIds \ {"light"}

\* No call of loadTheme has returned yet.
NoReturn == [n |-> 0, theme |-> None, saved |-> None, init |-> FALSE, result |-> FALSE]

\* new ThemeManager() in a page that has just been loaded: the fields, the
\* root element's theme classes and data-theme attribute, the <link> elements
\* of the head (none, loading, loaded, failed), localStorage, the calls of
\* loadTheme that await their stylesheet; calls, recent, failed and last
\* record the calls made, the theme of the latest one, whether one has
\* returned false in this page, and the call that returned last.
FreshPage(stored, calls, last) ==
    [currentTheme |-> "light", loadedThemes |-> {}, classList |-> {}, dataTheme |-> None,
     links |-> [c \in CssThemes |-> "none"], stored |-> stored, pending |-> {},
     calls |-> calls, recent |-> None, failed |-> FALSE, last |-> last]

\* applyTheme, this.currentTheme = themeId, localStorage.setItem, return true
ApplyTheme(t, id) == [t EXCEPT !.classList = (@ \ ThemeIds) \cup {id}, !.dataTheme = id]
ReturnTrue(t, call) ==
    [ApplyTheme([t EXCEPT !.loadedThemes = @ \cup {call.theme}], call.theme)
        EXCEPT !.currentTheme = call.theme,
               !.stored = call.theme,
               !.pending = @ \ {call},
               !.last = [n |-> t.last.n + 1, theme |-> call.theme, saved |-> call.saved,
                         init |-> call.init, result |-> TRUE]]

\* the catch block: return false
ReturnFalse(t, call) ==
    [t EXCEPT !.pending = @ \ {call},
              !.failed = TRUE,
              !.last = [n |-> t.last.n + 1, theme |-> call.theme, saved |-> call.saved,
                        init |-> call.init, result |-> FALSE]]

\* loadTheme(themeId) up to its first await that does not resolve at once:
\* loadThemeCSS resolves at once for 'light' and when a <link> with the
\* theme's id is already in the head, else it appends the <link> and waits
\* for its load or error event.
LoadTheme(t, themeId, init) ==
    LET id == IF themeId \in ThemeIds THEN themeId ELSE DefaultTheme
        call == [theme |-> id, saved |-> themeId, init |-> init]
        s == [t EXCEPT !.calls = @ + 1, !.recent = id]
    IN IF id \in s.loadedThemes THEN ReturnTrue(s, call)
       ELSE IF id = "light" THEN ReturnTrue(s, call)
       ELSE IF s.links[id] = "none"
            THEN [s EXCEPT !.links[id] = "loading", !.pending = @ \cup {call}]
            ELSE ReturnTrue(s, call)

\* the constructor: init() reads the saved theme and calls loadTheme
NewThemeManager(stored) ==
    LoadTheme(FreshPage(stored, 0, NoReturn), IF stored = None THEN DefaultTheme ELSE stored, TRUE)

\* The page is loaded again (the next session): same localStorage.
NewSession ==
    /\ tm.calls < MaxCalls
    /\ tm' = LoadTheme(FreshPage(tm.stored, tm.calls, tm.last),
                       IF tm.stored = None THEN DefaultTheme ELSE tm.stored, TRUE)
    /\ UNCHANGED <<uiVars, tasks, streamVars, srvVars, histVars, errorLog, shown, px, handled, rl>>

\* The user picks a theme (or updateFromPreferences is given one).
LoadThemeCall(themeId) ==
    /\ tm.calls < MaxCalls
    /\ tm' = LoadTheme(tm, themeId, FALSE)
    /\ UNCHANGED <<uiVars, tasks, streamVars, srvVars, histVars, errorLog, shown, px, handled, rl>>

\* link.onload: the call that appended the <link> goes on.
LinkLoaded(call) ==
    /\ call \in tm.pending
    /\ tm' = ReturnTrue([tm EXCEPT !.links[call.theme] = "loaded"], call)
    /\ UNCHANGED <<uiVars, tasks, streamVars, srvVars, histVars, errorLog, shown, px, handled, rl>>

\* link.onerror: the promise of loadThemeCSS rejects.
LinkFailed(call) ==
    /\ call \in tm.pending
    /\ tm' = ReturnFalse([tm EXCEPT !.links[call.theme] = "failed"], call)
    /\ UNCHANGED <<uiVars, tasks, streamVars, srvVars, histVars, errorLog, shown, px, handled, rl>>

ThemeCalls == {[theme |-> id, saved |-> s, init |-> i] : id \in CssThemes, s \in StoredThemes, i \in BOOLEAN}

\* ------------------------------------------ ValidationUtils.checkRateLimit
\* maxRequests and timeWindow of the calls (fixed for a key)
RateLimits == 0..2
TimeWindows == 1..3
\* Math.min() of no argument: +Infinity, above every number of the model
Infinity == 1000000

\* The result of the latest call (n: how many calls there have been).
NoCheck == [n |-> 0, allowed |-> FALSE, resetIn |-> 0]
\* localStorage has no entry for the key: requests is the stored array, now
\* the clock (Date.now()), allowedAt the times of the calls that were allowed.
RateLimitOf(maxRequests, timeWindow) ==
    [maxRequests |-> maxRequests, timeWindow |-> timeWindow, now |-> 0,
     requests |-> <<>>, allowedAt |-> <<>>, last |-> NoCheck]
NoRateLimit == RateLimitOf(1, 1)

\* Math.min(...requests)
MathMin(s) == IF s = <<>> THEN Infinity ELSE CHOOSE m \in Range(s) : \A x \in Range(s) : m <= x

\* requests.filter(timestamp => now - timestamp < timeWindow)
RecentRequests(r) == SeqFilter(r.requests, [ts \in 0..MaxClock |-> r.now - ts < r.timeWindow])

\* checkRateLimit(key, maxRequests, timeWindow) at time r.now
CheckRateLimitLate(r) ==
    LET recent == RecentRequests(r) IN
    IF Len(recent) > r.maxRequests
    THEN [r EXCEPT !.last = [n |-> @.n + 1, allowed |-> FALSE,
                             resetIn |-> IF recent = <<>> THEN Infinity
                                         ELSE r.timeWindow - (r.now - MathMin(recent))]]
    ELSE [r EXCEPT !.requests = Append(recent, r.now),
                   !.allowedAt = Append(@, r.now),
                   !.last = [n |-> @.n + 1, allowed |-> TRUE, resetIn |-> 0]]
CheckRateLimit(r) ==
    LET recent == RecentRequests(r) IN
    IF Len(recent) >= r.maxRequests
    THEN [r EXCEPT !.last = [n |-> @.n + 1, allowed |-> FALSE,
                             resetIn |-> IF recent = <<>> THEN Infinity
                                         ELSE r.timeWindow - (r.now - MathMin(recent))]]
    ELSE [r EXCEPT !.requests = Append(recent, r.now),
                   !.allowedAt = Append(@, r.now),
                   !.last = [n |-> @.n + 1, allowed |-> TRUE, resetIn |-> 0]]

\* a call of checkRateLimit
RateCheck ==
    /\ rl.last.n < MaxChecks
    /\ rl' = CheckRateLimit(rl)
    /\ UNCHANGED <<uiVars, tasks, streamVars, srvVars, histVars, errorLog, shown, px, tm, handled>>

\* a millisecond passes
RateTick ==
    /\ rl.now < MaxClock
    /\ rl' = [rl EXCEPT !.now = @ + 1]
    /\ UNCHANGED <<uiVars, tasks, streamVars, srvVars, histVars, errorLog, shown, px, tm, handled>>

\* ------------------------------------------------------ thread operations
\* the awaits a thread operation can be suspended at
Awaits == {<<"open", "validate">>, <<"open", "threads">>, <<"open", "create">>,
           <<"open", "reload">>, <<"create", "create">>, <<"create", "reload">>,
           <<"delete", "delete">>, <<"delete", "threads">>,
           <<"load", "history">>, <<"refresh", "threads">>}
Tasks == {[op |-> a[1], at |-> a[2], tid |-> t, pid |-> Paper] : a \in Awaits, t \in 0..MaxThreads}
Awaiting(ops, at) == {t \in Tasks : t.op \in ops /\ t.at = at}
Task(op, at, tid) == [op |-> op, at |-> at, tid |-> tid, pid |-> currentPaperId]
UserTasks == {t \in tasks : t.op # "refresh"}
CanStart == Cardinality(UserTasks) < MaxTasks

\* updateThreadList: the thread items rendered in the sidebar
UpdateThreadList(ths) == [i \in 1..Len(ths) |-> ths[i].id]

\* renderMessages
HistId(m) == <<"hist", m.id>>
RenderMessages(msgs, d) ==
    IF msgs = <<>> THEN d
    ELSE [i \in 1..Len(msgs) |-> Div(HistId(msgs[i]), msgs[i].role, FALSE, <<"text">>)]
RenderWelcome(msgs) == msgs = <<>>

\* loadThread up to its await
LoadThreadStart(t, ts) ==
    /\ currentThreadId' = t
    /\ welcome' = FALSE
    /\ tasks' = ts \cup {Task("load", "history", t)}

\* loadPaperThreads after its await: success, or the catch block
LoadedThreadsUnsorted(ok) == IF ok THEN ThreadRecords(srvThreads) ELSE <<>>
LoadedThreads(ok) == IF ok THEN SortDesc(ThreadRecords(srvThreads)) ELSE <<>>
LoadedThreadList(ok) == IF ok THEN UpdateThreadList(LoadedThreads(ok)) ELSE threadList

\* click on a thread item of the sidebar
ClickThread(t) ==
    /\ CanStart
    /\ t \in Range(threadList)
    /\ LoadThreadStart(t, tasks)
    /\ UNCHANGED <<currentPaperId, threads, messages, isStreaming, chatInput, sendDisabled,
                   status, dom, threadList, streamVars, srvVars, histVars>>
    /\ UNCHANGED appVars

\* loadThread after await getThreadHistory
LoadThreadDone(task, ok) ==
    /\ task \in tasks /\ task.op = "load"
    /\ ok => task.tid \in srvThreads
    /\ tasks' = tasks \ {task}
    /\ IF ok
       THEN /\ messages' = History(task.tid)
            /\ dom' = RenderMessages(History(task.tid), dom)
            /\ welcome' = RenderWelcome(History(task.tid))
            /\ threadList' = UpdateThreadList(threads)
            /\ status' = NoStatus
       ELSE /\ status' = ShowStatus("Failed to load conversation", "error")
            /\ UNCHANGED <<messages, dom, welcome, threadList>>
    /\ obs' = [obs EXCEPT !.opened = IF @ = task.tid THEN 0 ELSE @]
    /\ UNCHANGED <<currentPaperId, currentThreadId, threads, isStreaming, chatInput,
                   sendDisabled, streamVars, srvVars, sendNo, cbLog, expected>>
    /\ UNCHANGED appVars

\* loadPaperThreads started by completeStreamingMessage, after its await
RefreshDone(task, ok) ==
    /\ task \in tasks /\ task.op = "refresh"
    /\ tasks' = tasks \ {task}
    /\ threads' = LoadedThreads(ok)
    /\ threadList' = LoadedThreadList(ok)
    /\ UNCHANGED <<currentPaperId, currentThreadId, messages, isStreaming, chatInput,
                   sendDisabled, status, dom, welcome, streamVars, srvVars, histVars>>
    /\ UNCHANGED appVars

\* openChat up to await validatePaper
OpenChat(p) ==
    /\ CanStart
    /\ currentPaperId' = p
    /\ status' = ShowStatus("Validating paper for chat...", "info")
    /\ tasks' = tasks \cup {[op |-> "open", at |-> "validate", tid |-> 0, pid |-> p]}
    /\ UNCHANGED <<currentThreadId, threads, messages, isStreaming, chatInput, sendDisabled,
                   dom, welcome, threadList, streamVars, srvVars, histVars>>
    /\ UNCHANGED appVars

\* openChat after await validatePaper: the request failed, the paper is not
\* suitable, or loadPaperThreads is started
OpenValidated(task, outcome) ==
    /\ task \in tasks /\ task.op = "open" /\ task.at = "validate"
    /\ IF outcome = "valid"
       THEN /\ tasks' = (tasks \ {task}) \cup {Task("open", "threads", 0)}
            /\ UNCHANGED status
       ELSE /\ tasks' = tasks \ {task}
            /\ status' = ShowStatus(IF outcome = "invalid" THEN "reason" ELSE "Failed to open chat",
                                    "error")
    /\ UNCHANGED <<currentPaperId, currentThreadId, threads, messages, isStreaming, chatInput,
                   sendDisabled, dom, welcome, threadList, streamVars, srvVars, histVars>>
    /\ UNCHANGED appVars

\* openChat after await loadPaperThreads: createNewThread(title) when the
\* paper has no thread, else loadThread(threads[0].id) and clearStatus
OpenThreads(task, ok) ==
    /\ task \in tasks /\ task.op = "open" /\ task.at = "threads"
    /\ threads' = LoadedThreads(ok)
    /\ threadList' = LoadedThreadList(ok)
    /\ IF threads' = <<>>
       THEN /\ tasks' = (tasks \ {task}) \cup {Task("open", "create", 0)}
            /\ status' = ShowStatus("Creating new conversation...", "info")
            /\ UNCHANGED <<currentThreadId, welcome>>
       ELSE /\ LoadThreadStart(threads'[1].id, tasks \ {task})
            /\ status' = NoStatus
    /\ obs' = [obs EXCEPT !.opened = IF threads' = <<>> THEN 0 ELSE threads'[1].id]
    /\ UNCHANGED <<currentPaperId, messages, isStreaming, chatInput, sendDisabled, dom,
                   streamVars, srvVars, sendNo, cbLog, expected>>
    /\ UNCHANGED appVars

\* click on #new-thread-btn: createNewThread(null), title from prompt()
\* (titled = FALSE: the prompt was cancelled)
NewThreadClick(titled) ==
    /\ CanStart
    /\ IF currentPaperId = None
       THEN /\ status' = ShowStatus("No paper selected", "error")
            /\ UNCHANGED tasks
       ELSE IF ~titled THEN UNCHANGED <<status, tasks>>
       ELSE /\ status' = ShowStatus("Creating new conversation...", "info")
            /\ tasks' = tasks \cup {Task("create", "create", 0)}
    /\ UNCHANGED <<currentPaperId, currentThreadId, threads, messages, isStreaming, chatInput,
                   sendDisabled, dom, welcome, threadList, streamVars, srvVars, histVars>>
    /\ UNCHANGED appVars

\* POST /thread: the new thread record
CreatedThread ==
    /\ srvThreads' = srvThreads \cup {srvNext}
    /\ srvCount' = [srvCount EXCEPT ![srvNext] = 0]
    /\ srvUpd' = [srvUpd EXCEPT ![srvNext] = Clock]
    /\ srvNext' = srvNext + 1

\* createNewThread after await createThread.  Its catch block shows the
\* failure; when openChat was the caller, openChat goes on to clearStatus.
CreateDone(task, ok) ==
    /\ task \in tasks /\ task.at = "create"
    /\ ok => srvNext \in ThreadIds
    /\ IF ok
       THEN /\ CreatedThread
            /\ tasks' = (tasks \ {task}) \cup {[task EXCEPT !.at = "reload", !.tid = srvNext]}
            /\ UNCHANGED status
       ELSE /\ tasks' = tasks \ {task}
            /\ status' = IF task.op = "open" THEN NoStatus
                         ELSE ShowStatus("Failed to create conversation", "error")
            /\ UNCHANGED srvVars
    /\ UNCHANGED <<currentPaperId, currentThreadId, threads, messages, isStreaming, chatInput,
                   sendDisabled, dom, welcome, threadList, streamVars, histVars>>
    /\ UNCHANGED appVars

\* createNewThread after await loadPaperThreads: loadThread(new id), clearStatus
CreateReloaded(task, ok) ==
    /\ task \in tasks /\ task.at = "reload"
    /\ threads' = LoadedThreads(ok)
    /\ threadList' = LoadedThreadList(ok)
    /\ LoadThreadStart(task.tid, tasks \ {task})
    /\ status' = NoStatus
    /\ UNCHANGED <<currentPaperId, messages, isStreaming, chatInput, sendDisabled, dom,
                   streamVars, srvVars, histVars>>
    /\ UNCHANGED appVars

\* click on the delete button of a thread item (confirmed = FALSE: confirm()
\* was answered with Cancel)
DeleteThread(t, confirmed) ==
    /\ CanStart
    /\ t \in Range(threadList)
    /\ tasks' = IF confirmed THEN tasks \cup {Task("delete", "delete", t)} ELSE tasks
    /\ UNCHANGED <<uiVars, streamVars, srvVars, histVars>>
    /\ UNCHANGED appVars

\* DELETE /thread/<id>: the thread and its messages are removed
DeletedThread(t) ==
    /\ srvThreads' = srvThreads \ {t}
    /\ srvCount' = [srvCount EXCEPT ![t] = 0]
    /\ srvUpd' = [srvUpd EXCEPT ![t] = 0]

\* deleteThread after await apiClient.deleteThread
DeleteDone(task, ok) ==
    /\ task \in tasks /\ task.op = "delete" /\ task.at = "delete"
    /\ ok => task.tid \in srvThreads
    /\ IF ok
       THEN /\ DeletedThread(task.tid)
            /\ tasks' = (tasks \ {task}) \cup {[task EXCEPT !.at = "threads"]}
            /\ UNCHANGED status
       ELSE /\ tasks' = tasks \ {task}
            /\ status' = ShowStatus("Failed to delete conversation", "error")
            /\ UNCHANGED <<srvThreads, srvCount, srvUpd>>
    /\ UNCHANGED <<currentPaperId, currentThreadId, threads, messages, isStreaming, chatInput,
                   sendDisabled, dom, welcome, threadList, streamVars, srvNext, histVars>>
    /\ UNCHANGED appVars

\* deleteThread after await loadPaperThreads
DeleteReloaded(task, ok) ==
    /\ task \in tasks /\ task.op = "delete" /\ task.at = "threads"
    /\ tasks' = tasks \ {task}
    /\ threads' = LoadedThreads(ok)
    /\ threadList' = LoadedThreadList(ok)
    /\ IF task.tid = currentThreadId
       THEN /\ currentThreadId' = 0
            /\ messages' = <<>>
            /\ welcome' = RenderWelcome(<<>>)
       ELSE UNCHANGED <<currentThreadId, messages, welcome>>
    /\ UNCHANGED <<currentPaperId, isStreaming, chatInput, sendDisabled, status, dom,
                   streamVars, srvVars, histVars>>
    /\ UNCHANGED appVars

\* ------------------------------------------------------------ the system
\* new ChatbotUI(...): the constructor and createChatInterface; the paper has
\* no thread yet, or one thread with an earlier exchange.
Init ==
    /\ currentPaperId = None
    /\ currentThreadId = 0
    /\ threads = <<>>
    /\ messages = <<>>
    /\ isStreaming = FALSE
    /\ chatInput = ""
    /\ sendDisabled = TRUE
    /\ status = NoStatus
    /\ dom = <<>>
    /\ welcome = TRUE
    /\ threadList = <<>>
    /\ tasks = {}
    /\ pc = "idle"
    /\ send = NoSend
    /\ buffer = <<>>
    /\ wire = <<>>
    /\ srvOpen = FALSE
    /\ srvEmitted = 0
    /\ srvThreads \in {{}, {1}}
    /\ srvCount = [t \in ThreadIds |-> IF t \in srvThreads THEN 2 ELSE 0]
    /\ srvUpd = [t \in ThreadIds |-> IF t \in srvThreads THEN 1 ELSE 0]
    /\ srvNext = Cardinality(srvThreads) + 1
    /\ sendNo = 0
    /\ cbLog = <<>>
    /\ expected = NoneExpected
    /\ obs = NewObs
    /\ errorLog = <<>>
    /\ shown = <<>>
    /\ px = NoUpstream
    /\ tm = NewThemeManager(None)
    /\ handled = NoneHandled
    /\ rl = NoRateLimit

Next ==
    \/ SendClick
    \/ \E shift \in BOOLEAN : KeydownEnter(shift)
    \/ \E v \in Inputs : TypeInput(v)
    \/ FetchOk
    \/ FetchFail
    \/ \E ev \in CoreEvents : ServerWrite(ev)
    \/ ServerClose
    \/ \E k \in 1..MaxWire : StreamRead(k)
    \/ StreamEnd
    \/ ReadFail
    \/ OpenChat(Paper)
    \/ \E t \in ThreadIds : ClickThread(t)
    \/ \E b \in BOOLEAN : NewThreadClick(b)
    \/ \E t \in ThreadIds, b \in BOOLEAN : DeleteThread(t, b)
    \/ \E task \in Awaiting({"open"}, "validate"), o \in {"valid", "invalid", "fail"} : OpenValidated(task, o)
    \/ \E task \in Awaiting({"open"}, "threads"), ok \in BOOLEAN : OpenThreads(task, ok)
    \/ \E task \in Awaiting({"open", "create"}, "create"), ok \in BOOLEAN : CreateDone(task, ok)
    \/ \E task \in Awaiting({"open", "create"}, "reload"), ok \in BOOLEAN : CreateReloaded(task, ok)
    \/ \E task \in Awaiting({"load"}, "history"), ok \in BOOLEAN : LoadThreadDone(task, ok)
    \/ \E task \in Awaiting({"refresh"}, "threads"), ok \in BOOLEAN : RefreshDone(task, ok)
    \/ \E task \in Awaiting({"delete"}, "delete"), ok \in BOOLEAN : DeleteDone(task, ok)
    \/ \E task \in Awaiting({"delete"}, "threads"), ok \in BOOLEAN : DeleteReloaded(task, ok)

Spec == Init /\ [][Next]_vars

\* The chat as it is once openChat has finished on a paper with an earlier
\* exchange (thread 1) and a conversation created afterwards (thread 2, still
\* empty), with thread 1 selected again: sends and thread switches from there,
\* the server answering every request for a thread's history.
InitChat ==
    /\ currentPaperId = Paper
    /\ currentThreadId = 1
    /\ threads = <<[id |-> 2, updated_at |-> 2], [id |-> 1, updated_at |-> 1]>>
    /\ messages = <<[id |-> 101, role |-> "user"], [id |-> 102, role |-> "assistant"]>>
    /\ isStreaming = FALSE
    /\ chatInput = ""
    /\ sendDisabled = TRUE
    /\ status = NoStatus
    /\ dom = RenderMessages(messages, <<>>)
    /\ welcome = FALSE
    /\ threadList = <<2, 1>>
    /\ tasks = {}
    /\ pc = "idle"
    /\ send = NoSend
    /\ buffer = <<>>
    /\ wire = <<>>
    /\ srvOpen = FALSE
    /\ srvEmitted = 0
    /\ srvThreads = {1, 2}
    /\ srvCount = [t \in ThreadIds |-> IF t = 1 THEN 2 ELSE 0]
    /\ srvUpd = [t \in ThreadIds |-> IF t \in {1, 2} THEN t ELSE 0]
    /\ srvNext = 3
    /\ sendNo = 0
    /\ cbLog = <<>>
    /\ expected = NoneExpected
    /\ obs = NewObs
    /\ errorLog = <<>>
    /\ shown = <<>>
    /\ px = NoUpstream
    /\ tm = NewThemeManager(None)
    /\ handled = NoneHandled
    /\ rl = NoRateLimit

NextChat ==
    \/ SendClick
    \/ \E shift \in BOOLEAN : KeydownEnter(shift)
    \/ \E v \in Inputs : TypeInput(v)
    \/ FetchOk
    \/ FetchFail
    \/ \E ev \in CoreEvents : ServerWrite(ev)
    \/ ServerClose
    \/ \E k \in 1..MaxWire : StreamRead(k)
    \/ StreamEnd
    \/ ReadFail
    \/ \E t \in ThreadIds : ClickThread(t)
    \/ \E task \in Awaiting({"load"}, "history") : LoadThreadDone(task, TRUE)
    \/ \E task \in Awaiting({"refresh"}, "threads"), ok \in BOOLEAN : RefreshDone(task, ok)

SpecChat == InitChat /\ [][NextChat]_vars

\* The thread operations alone, from construction: opening the chat, creating,
\* selecting and deleting conversations, every request succeeding or failing
\* except the requests for a thread's history, which succeed.
NextThreads ==
    \/ OpenChat(Paper)
    \/ \E t \in ThreadIds : ClickThread(t)
    \/ \E b \in BOOLEAN : NewThreadClick(b)
    \/ \E t \in ThreadIds, b \in BOOLEAN : DeleteThread(t, b)
    \/ \E task \in Awaiting({"open"}, "validate"), o \in {"valid", "invalid", "fail"} : OpenValidated(task, o)
    \/ \E task \in Awaiting({"open"}, "threads"), ok \in BOOLEAN : OpenThreads(task, ok)
    \/ \E task \in Awaiting({"open", "create"}, "create"), ok \in BOOLEAN : CreateDone(task, ok)
    \/ \E task \in Awaiting({"open", "create"}, "reload"), ok \in BOOLEAN : CreateReloaded(task, ok)
    \/ \E task \in Awaiting({"load"}, "history") : LoadThreadDone(task, TRUE)
    \/ \E task \in Awaiting({"delete"}, "delete"), ok \in BOOLEAN : DeleteDone(task, ok)
    \/ \E task \in Awaiting({"delete"}, "threads"), ok \in BOOLEAN : DeleteReloaded(task, ok)

SpecThreads == Init /\ [][NextThreads]_vars

\* The same with requests for a thread's history that fail.
NextLoads ==
    \/ NextThreads
    \/ \E task \in Awaiting({"load"}, "history") : LoadThreadDone(task, FALSE)

SpecLoads == Init /\ [][NextLoads]_vars

\* The input field and the send button, before a chat was opened (no active
\* thread) and in the opened chat, with every text the field can hold.
InitInput == Init \/ InitChat

NextInput ==
    \/ SendClick
    \/ \E shift \in BOOLEAN : KeydownEnter(shift)
    \/ \E v \in AllInputs : TypeInput(v)
    \/ FetchOk
    \/ FetchFail
    \/ \E ev \in CoreEvents : ServerWrite(ev)
    \/ ServerClose
    \/ \E k \in 1..MaxWire : StreamRead(k)
    \/ StreamEnd
    \/ ReadFail

SpecInput == InitInput /\ [][NextInput]_vars

\* The same steps with the scheduling the browser guarantees: a settled fetch
\* resumes streamMessage, bytes that have arrived are read, the end of the
\* body is seen.  Nothing makes the server write or close, and nothing in
\* the page counts time.
SpecInputFair ==
    /\ SpecInput
    /\ WF_vars(FetchOk \/ FetchFail)
    /\ WF_vars(\E k \in 1..MaxWire : StreamRead(k))
    /\ WF_vars(StreamEnd)

\* ----------------------------------------------------------- ErrorHandler
\* A text is a sequence of words.  An error message is a word the handler may
\* recognise ("" for none) and text that quotes a credential.
MaxLogSize == 100
Secrets == {"sk-1", "sk-2"}
ErrorWords == {"401", "Invalid", ""}
Contexts == {<<"Chat">>, <<"Unknown">>}
ErrorMessage(word, secret) ==
    (IF word = "" THEN <<>> ELSE <<word>>) \o <<" for key ", secret>>
Errors == {[name |-> "Error", message |-> ErrorMessage(w, k), stack |-> <<"at ", k>>] :
              w \in ErrorWords, k \in Secrets}

\* String.prototype.includes
Includes(text, word) == \E i \in 1..Len(text) : text[i] = word
IncludesAny(text, words) == \E w \in words : Includes(text, w)

\* getUserFriendlyMessage
GetUserFriendlyMessage(message, context) ==
    IF IncludesAny(message, {"fetch", "network", "NetworkError"})
    THEN <<"Unable to connect to the server. Please check your internet connection and try again.">>
    ELSE IF IncludesAny(message, {"timeout", "timed out"})
    THEN <<"The request took too long to complete. Please try again.">>
    ELSE IF IncludesAny(message, {"401", "Unauthorized"})
    THEN <<"Authentication failed. Please check your API key in settings.">>
    ELSE IF IncludesAny(message, {"403", "Forbidden"})
    THEN <<"Access denied. Please check your permissions.">>
    ELSE IF IncludesAny(message, {"404", "Not Found"})
    THEN <<"The requested resource was not found.">>
    ELSE IF IncludesAny(message, {"429", "Too Many Requests"})
    THEN <<"Too many requests. Please wait a moment and try again.">>
    ELSE IF IncludesAny(message, {"500", "Internal Server Error"})
    THEN <<"Server error occurred. Please try again later.">>
    ELSE IF IncludesAny(message, {"Invalid", "invalid"})
    THEN <<"Invalid input: ">> \o message
    ELSE IF IncludesAny(message, {"JSON", "parse"})
    THEN <<"Failed to process server response. Please try again.">>
    ELSE IF IncludesAny(message, {"localStorage", "storage"})
    THEN <<"Browser storage error. Your browser may be in private mode or storage may be full.">>
    ELSE IF Includes(context, "Chat")
    THEN <<"Chat error: ">> \o message \o <<". Please try reloading the page.">>
    ELSE IF Includes(context, "Search")
    THEN <<"Search error: ">> \o message \o <<". Please try again with different keywords.">>
    ELSE IF Includes(context, "Paper")
    THEN <<"Failed to load paper: ">> \o message
    ELSE <<"An unexpected error occurred. Please try again later.">>

\* parseError for an Error object (the timestamp is left out)
\* timestamp: the time of the call, here the number of the call
ParseError(error, context, timestamp) ==
    [message |-> error.message, stack |-> error.stack, type |-> error.name,
     context |-> context, timestamp |-> timestamp,
     userMessage |-> GetUserFriendlyMessage(error.message, context)]

\* logError: unshift, then slice(0, maxLogSize)
LogErrorUntrimmed(log, errorInfo) == <<errorInfo>> \o log
LogError(log, errorInfo) ==
    LET l == <<errorInfo>> \o log IN
    IF Len(l) > MaxLogSize THEN SubSeq(l, 1, MaxLogSize) ELSE l

\* showErrorToUser: the text of the toast, or of the alert when there is no app
ShownMessage(errorInfo, showDetails, hasApp) ==
    IF hasApp
    THEN IF showDetails
         THEN errorInfo.userMessage \o <<"Details: ">> \o errorInfo.message
         ELSE errorInfo.userMessage
    ELSE <<"Error: ">> \o errorInfo.userMessage

\* the toast (or alert) texts kept for comparison: the latest MaxErrors
LatestShown(texts) ==
    IF Len(texts) > MaxErrors THEN SubSeq(texts, Len(texts) - MaxErrors + 1, Len(texts)) ELSE texts

\* handleError(error, context, {silent, showDetails})
HandleErrorBody(error, context, silent, showDetails, hasApp) ==
    /\ LET errorInfo == ParseError(error, context, handled.n + 1) IN
       /\ errorLog' = LogError(errorLog, errorInfo)
       /\ shown' = IF silent THEN shown
                   ELSE LatestShown(Append(shown, [error |-> error, context |-> context,
                                       details |-> showDetails /\ hasApp, app |-> hasApp,
                                       text |-> ShownMessage(errorInfo, showDetails, hasApp)]))
    /\ handled' = [handled EXCEPT !.n = @ + 1]
    /\ UNCHANGED <<uiVars, tasks, streamVars, srvVars, histVars, px, tm, rl>>

\* the error of the calls that fill the log
LoggedError == [name |-> "Error", message |-> ErrorMessage("401", "sk-1"), stack |-> <<"at ", "sk-1">>]

\* getErrorLog(limit): errorLog.slice(0, limit), for a limit >= 0
GetErrorLog(log, limit) == SubSeq(log, 1, IF limit < Len(log) THEN limit ELSE Len(log))

\* clearErrorLog()
ClearErrorLog ==
    /\ errorLog # <<>>
    /\ errorLog' = <<>>
    /\ handled' = [handled EXCEPT !.cleared = handled.n]
    /\ UNCHANGED <<uiVars, tasks, streamVars, srvVars, histVars, shown, px, tm, rl>>

\* a call of handleError, one of the first MaxErrors
HandleError(error, context, silent, showDetails, hasApp) ==
    /\ handled.n < MaxErrors
    /\ HandleErrorBody(error, context, silent, showDetails, hasApp)

\* a call of handleError with an error of one kind, until the log has
\* overflowed MaxErrors times
HandleLoggedError(silent) ==
    /\ handled.n < MaxLogSize + MaxErrors
    /\ HandleErrorBody(LoggedError, <<"Chat">>, silent, FALSE, TRUE)

NextErrors ==
    \E error \in Errors, context \in Contexts, silent \in BOOLEAN,
       showDetails \in BOOLEAN, hasApp \in BOOLEAN :
        HandleError(error, context, silent, showDetails, hasApp)

SpecErrors == Init /\ [][NextErrors]_vars

\* The log at its full size: more errors of one kind than the log holds,
\* handled silently or not, and the log cleared at any time.
NextLog ==
    \/ \E silent \in BOOLEAN : HandleLoggedError(silent)
    \/ ClearErrorLog

SpecLog == Init /\ [][NextLog]_vars

\* A send through the Express proxy: the page talks to /api/chatbot/stream on
\* its own origin, the proxy to the backend.  Every step that is enabled is
\* eventually taken (the event loops of the browser and of Node run, the
\* backend ends its response).
NextProxy ==
    \/ SendClick
    \/ \E v \in Inputs : TypeInput(v)
    \/ ProxyRequest
    \/ \E ev \in Events : BackendWrite(ev)
    \/ BackendEnd
    \/ ProxyRespond
    \/ ProxyError
    \/ \E k \in 1..MaxBody : StreamRead(k)
    \/ StreamEnd

SpecProxy ==
    /\ InitChat
    /\ [][NextProxy]_vars
    /\ WF_vars(ProxyRequest)
    /\ WF_vars(BackendEnd)
    /\ WF_vars(ProxyRespond)
    /\ WF_vars(\E k \in 1..MaxBody : StreamRead(k))
    /\ WF_vars(StreamEnd)

\* The ThemeManager over several sessions: the first page load finds any
\* value in localStorage; themes are picked while stylesheets load or fail.
InitTheme ==
    /\ \E stored \in StoredThemes : tm = NewThemeManager(stored)
    /\ handled = NoneHandled
    /\ rl = NoRateLimit
    /\ currentPaperId = None
    /\ currentThreadId = 0
    /\ threads = <<>>
    /\ messages = <<>>
    /\ isStreaming = FALSE
    /\ chatInput = ""
    /\ sendDisabled = TRUE
    /\ status = NoStatus
    /\ dom = <<>>
    /\ welcome = TRUE
    /\ threadList = <<>>
    /\ tasks = {}
    /\ pc = "idle"
    /\ send = NoSend
    /\ buffer = <<>>
    /\ wire = <<>>
    /\ srvOpen = FALSE
    /\ srvEmitted = 0
    /\ srvThreads = {}
    /\ srvCount = [t \in ThreadIds |-> 0]
    /\ srvUpd = [t \in ThreadIds |-> 0]
    /\ srvNext = 1
    /\ sendNo = 0
    /\ cbLog = <<>>
    /\ expected = NoneExpected
    /\ obs = NewObs
    /\ errorLog = <<>>
    /\ shown = <<>>
    /\ px = NoUpstream

NextTheme ==
    \/ NewSession
    \/ \E themeId \in ThemeIds \cup {UnknownTheme} : LoadThemeCall(themeId)
    \/ \E call \in ThemeCalls : LinkLoaded(call)
    \/ \E call \in ThemeCalls : LinkFailed(call)

SpecTheme == InitTheme /\ [][NextTheme]_vars

\* Calls of checkRateLimit for one key, with any limit and window, as time
\* passes; the key has no entry in localStorage at first.
InitRate ==
    /\ \E m \in RateLimits, w \in TimeWindows : rl = RateLimitOf(m, w)
    /\ tm = NewThemeManager(None)
    /\ handled = NoneHandled
    /\ currentPaperId = None
    /\ currentThreadId = 0
    /\ threads = <<>>
    /\ messages = <<>>
    /\ isStreaming = FALSE
    /\ chatInput = ""
    /\ sendDisabled = TRUE
    /\ status = NoStatus
    /\ dom = <<>>
    /\ welcome = TRUE
    /\ threadList = <<>>
    /\ tasks = {}
    /\ pc = "idle"
    /\ send = NoSend
    /\ buffer = <<>>
    /\ wire = <<>>
    /\ srvOpen = FALSE
    /\ srvEmitted = 0
    /\ srvThreads = {}
    /\ srvCount = [t \in ThreadIds |-> 0]
    /\ srvUpd = [t \in ThreadIds |-> 0]
    /\ srvNext = 1
    /\ sendNo = 0
    /\ cbLog = <<>>
    /\ expected = NoneExpected
    /\ obs = NewObs
    /\ errorLog = <<>>
    /\ shown = <<>>
    /\ px = NoUpstream

NextRate == RateCheck \/ RateTick

SpecRate == InitRate /\ [][NextRate]_vars

\* ================================================================ claims
Terminal(e) == e.cb \in {"complete", "error"}
Settled == pc = "idle" /\ send.no > 0
Returns == pc # "idle" /\ pc' = "idle"

RECURSIVE Delivered(_)
Delivered(log) ==
    IF log = <<>> THEN <<>>
    ELSE (IF Head(log).cb = "chunk" THEN <<Head(log).arg>> ELSE <<>>) \o Delivered(Tail(log))

IsPrefix(a, b) == Len(a) <= Len(b) /\ SubSeq(b, 1, Len(a)) = a
Optimistic(d) == Cardinality({i \in 1..Len(d) : d[i].id[1] = "user"})
AssistantShown == InDom(dom, MsgId(send.no))
AssistantDiv == ElementById(dom, MsgId(send.no))

\* C1: when a streamMessage call has returned, the callbacks it made are zero
\* or more onChunk followed by exactly one terminal callback.
C1_ChunksThenOneTerminal ==
    Settled =>
        /\ Len(cbLog) >= 1
        /\ Terminal(Last(cbLog))
        /\ \A i \in 1..(Len(cbLog) - 1) : cbLog[i].cb = "chunk"

\* C2: after a terminal callback of a call, the call makes no further
\* callback: every callback but the last one made is onChunk.
C2_NothingAfterTerminal ==
    \A i \in 1..Len(cbLog) : \A j \in 1..Len(cbLog) : (i < j) => ~Terminal(cbLog[i])

\* C3: the payloads passed to onChunk are, in order, payloads of the chunk
\* lines written before the first terminal line, and all of them once the
\* response has been read to its terminal line or to its end.
C3_ChunksAsSent ==
    /\ IsPrefix(Delivered(cbLog), expected.chunks)
    /\ (Settled /\ ~obs.failed) => Delivered(cbLog) = expected.chunks

\* C4: while a stream request is in flight, no step issues another stream
\* request or appends another optimistic user message.
C4_OneRequestInFlight ==
    [][(pc # "idle") => (sendNo' = sendNo /\ Optimistic(dom') <= Optimistic(dom))]_vars

\* C4 witness: with a request in flight on a thread that is no longer the
\* active one, a send with a non-empty input was attempted and ignored.
C4_Witness ==
    /\ pc = "read" /\ isStreaming
    /\ obs.ignored = 1
    /\ Trim(chatInput) # ""
    /\ currentThreadId # send.thread
    /\ sendNo = 1

\* C5: a send creates at most one assistant message, and while that message
\* is displayed its text is the concatenation of the chunks received so far.
C5_AssistantTextIsChunks ==
    (sendNo > 0) =>
        /\ obs.created <= 1
        /\ AssistantShown => ShownText(AssistantDiv.html) = Delivered(cbLog)

\* C6: when sendMessage returns from a stream whose terminal event was done,
\* the assistant message is sealed and the thread list has been reloaded.
C6_DoneSealsAndReloads ==
    [][(Returns /\ obs'.term = "done") =>
          /\ obs'.refreshed
          /\ InDom(dom', MsgId(send'.no)) =>
                (~ElementById(dom', MsgId(send'.no)).streaming
                 /\ ~ElementById(dom', MsgId(send'.no)).sid)]_vars

\* C7: when sendMessage returns from a stream whose terminal event was error,
\* or from a failed request, an error status was shown, the assistant message
\* (if displayed) is not streaming and shows the failure, isStreaming is false
\* and the send button is enabled.
C7_ErrorSurfaced ==
    [][(Returns /\ (obs'.term = "error" \/ obs'.failed)) =>
          /\ obs'.errShown
          /\ InDom(dom', MsgId(send'.no)) =>
                (~ElementById(dom', MsgId(send'.no)).streaming
                 /\ ElementById(dom', MsgId(send'.no)).html = <<ErrSpan>>)
          /\ ~isStreaming'
          /\ ~sendDisabled']_vars

\* C8: no chunk is rendered into the message view while the active thread is
\* not the thread the send was issued on.
RendersChunk ==
    /\ Len(Delivered(cbLog')) > Len(Delivered(cbLog))
    /\ InDom(dom', MsgId(send'.no))
    /\ \/ ~InDom(dom, MsgId(send'.no))
       \/ Len(ElementById(dom', MsgId(send'.no)).html) > Len(ElementById(dom, MsgId(send'.no)).html)
C8_NoRenderOffThread ==
    [][(pc = "read" /\ currentThreadId # send.thread) => ~RendersChunk]_vars

\* C9: a send whose thread is no longer the active one when its stream ends
\* with done still has the thread list reloaded.
C9_BackgroundReload ==
    [][(Returns /\ obs'.term = "done" /\ currentThreadId # send.thread) => obs'.refreshed]_vars

\* C10: after an error event, the chunk text rendered before it is still
\* shown in the assistant message.
C10_ChunksKeptAfterError ==
    (sendNo > 0 /\ obs.term = "error" /\ AssistantShown) =>
        IsPrefix(Delivered(cbLog), ShownText(AssistantDiv.html))

\* C11: when the stream of a send ends with an error before any chunk was
\* delivered (an error line, a failed request or a failed read), the step
\* that delivers the error leaves messages[] as it was, the conversation
\* view holds no assistant message of that send, and an error status is shown.
ErrorBeforeChunk ==
    /\ cbLog' # cbLog
    /\ sendNo' = sendNo
    /\ Last(cbLog').cb = "error"
    /\ Delivered(cbLog') = <<>>
C11_ErrorBeforeChunk ==
    [][ErrorBeforeChunk =>
          /\ messages' = messages
          /\ ~InDom(dom', MsgId(send'.no))
          /\ status'.type = "error"]_vars
C11_Witness ==
    /\ Settled
    /\ cbLog = <<[cb |-> "error", arg |-> "E"]>>
    /\ obs.term = "error"
    /\ status.type = "error"
    /\ ~InDom(dom, MsgId(send.no))
    /\ InDom(dom, UserId(send.no))

\* C12: a sendMessage call with an input that is empty after trimming, or
\* with no active thread, changes nothing: no request is issued, and
\* isStreaming, messages[], the rendered messages, the input field and the
\* send button are as before.
C12_RejectedWithoutEffect ==
    [][((Trim(chatInput) = "" \/ currentThreadId = 0) /\ SendMessage) =>
          UNCHANGED <<pc, sendNo, isStreaming, messages, dom, welcome, chatInput,
                      sendDisabled, status, wire, tasks>>]_vars
C12_Witness ==
    /\ currentThreadId = 0
    /\ Trim(chatInput) = "hi"
    /\ obs.ignored = 2
    /\ pc = "idle" /\ sendNo = 0 /\ ~isStreaming
    /\ dom = <<>> /\ messages = <<>>

\* C13: while the input field holds a text longer than MaxMessageLength after
\* trimming (one validateChatMessage rejects), no step issues a stream request.
TooLong(text) ==
    /\ TextLength(Trim(text)) > MaxMessageLength
    /\ ~ValidateChatMessage(text).valid
C13_OversizedRejected ==
    [][TooLong(chatInput) => (sendNo' = sendNo /\ (pc = "idle" => pc' = "idle"))]_vars

\* the request of a thread operation that is answered in this step
Answered(task) == task \in tasks /\ task \notin tasks'
\* the thread a rendered message belongs to (0: not a message of a history)
ThreadOf(e) == IF e.id[1] = "hist" THEN e.id[2] \div 100 ELSE 0

\* C14: when deleteThread has deleted a thread and reloaded the list, the
\* thread is not in threads[], and if it was the active thread then
\* currentThreadId is null, messages[] is empty and none of its messages is
\* still rendered.
C14_NoPartialState ==
    [][\A task \in Awaiting({"delete"}, "threads") :
          Answered(task) =>
              /\ \A i \in 1..Len(threads') : threads'[i].id # task.tid
              /\ (task.tid = currentThreadId) =>
                     /\ currentThreadId' = 0
                     /\ messages' = <<>>
                     /\ \A i \in 1..Len(dom') : ThreadOf(dom'[i]) # task.tid]_vars

\* C15: whenever no loadThread call is in progress (and no send has changed
\* a history), messages[] is the history of the thread currentThreadId names.
LoadInProgress == \E task \in tasks : task.op = "load"
C15_MessagesOfActiveThread ==
    (~LoadInProgress /\ sendNo = 0 /\ currentThreadId # 0) =>
        messages = History(currentThreadId)

\* C16: when loadThread(t) completes successfully, the rendered messages are
\* exactly those of t's history, in its order; none for an empty history.
RenderedHistory(h) == [i \in 1..Len(h) |-> Div(HistId(h[i]), h[i].role, FALSE, <<"text">>)]
C16_LogIsHistory ==
    [][\A task \in Awaiting({"load"}, "history") :
          (Answered(task) /\ status'.type # "error") =>
              dom' = RenderedHistory(History(task.tid))]_vars

\* C17: threads[] is always in descending order of updated_at, and when
\* openChat finds threads it activates threads[0], a thread no other thread
\* of the paper was updated after.
IsSortedDesc(ths) ==
    \A i \in 1..(Len(ths) - 1) : ths[i].updated_at >= ths[i + 1].updated_at
C17_SortedAndMostRecentOpened ==
    [][/\ IsSortedDesc(threads')
       /\ \A task \in Awaiting({"open"}, "threads") :
             (Answered(task) /\ threads' # <<>>) =>
                 /\ currentThreadId' = threads'[1].id
                 /\ currentThreadId' \in srvThreads
                 /\ \A t \in srvThreads : srvUpd[t] <= srvUpd[currentThreadId']]_vars
C17_Witness ==
    /\ obs.opened = 2
    /\ currentThreadId = 2
    /\ Len(threads) = 2
    /\ threads[1].id = 2 /\ threads[2].id = 1
    /\ threads[1].updated_at > threads[2].updated_at

\* C18: a failure is never swallowed: when the thread list cannot be loaded,
\* or the thread openChat creates cannot be created, the step that handles
\* the failure leaves an error status shown.
ListLoadFailed(task) ==
    /\ task.at \in {"threads", "reload"}
    /\ Answered(task)
    /\ srvThreads # {} /\ threads' = <<>>
OpenCreateFailed(task) ==
    /\ task.op = "open" /\ task.at = "create"
    /\ Answered(task)
    /\ [task EXCEPT !.at = "reload", !.tid = srvNext] \notin tasks'
C18_NoErrorSwallowed ==
    [][\A task \in Tasks :
          (ListLoadFailed(task) \/ OpenCreateFailed(task)) => status'.type = "error"]_vars

\* C19: two errors of the same kind and context that differ only in the
\* secret text of their message (or stack) are shown to the user with the
\* same text.
SameButSecret(e1, e2) ==
    /\ e1.name = e2.name
    /\ Len(e1.message) = Len(e2.message)
    /\ \A k \in 1..Len(e1.message) :
          e1.message[k] = e2.message[k] \/ {e1.message[k], e2.message[k]} \subseteq Secrets
C19_SameTextForAnySecret ==
    \A i \in 1..Len(shown) : \A j \in 1..Len(shown) :
        (/\ SameButSecret(shown[i].error, shown[j].error)
         /\ shown[i].context = shown[j].context
         /\ shown[i].details = shown[j].details
         /\ shown[i].app = shown[j].app) => shown[i].text = shown[j].text

\* the backend has written a data line that carries a chunk
BackendWroteChunk ==
    \E i \in 1..Len(px.body) :
        /\ px.body[i].k = "head" /\ px.body[i].j
        /\ px.body[i].error = "" /\ px.body[i].chunk # ""

\* C20: the reply is streamed end to end through the Express /api proxy: a
\* chunk the backend has written reaches the client's onChunk (the claim
\* asks for more: that it can do so before the backend has ended its
\* response).
C20_ChunkReachesOnChunk == BackendWroteChunk ~> (Delivered(cbLog) # <<>>)

\* C21: a send does not generate for ever: a send in progress (also one whose
\* stream neither delivers a terminal event nor closes) is eventually failed
\* or finished and isStreaming becomes false again.
C21_StalledSendFails == isStreaming ~> ~isStreaming

\* a call of loadTheme returns in this step
ThemeReturns == tm'.last.n # tm.last.n
\* theme id is the one applied: the only theme class of the root element and
\* its data-theme attribute
Applied(t, id) == t.classList = {id} /\ t.dataTheme = id

\* C22: the selected theme persists across sessions: a loadTheme that returns
\* true leaves its theme in localStorage, and the init of a newly constructed
\* ThemeManager ends with currentTheme the stored theme and that theme
\* applied, or with the default 'light' when the stored id is not a known
\* theme.
C22_ThemePersists ==
    [][ThemeReturns =>
        /\ tm'.last.result => tm'.stored = tm'.last.theme
        /\ tm'.last.init =>
            LET want == IF tm'.last.saved \in ThemeIds THEN tm'.last.saved ELSE "light"
            IN tm'.currentTheme = want /\ Applied(tm', want)]_vars

\* C23: isStreaming is true exactly while a stream request of sendMessage is
\* in flight, and when the request settles (done, error, body closed, failed
\* request or read, exception of a callback) sendMessage leaves isStreaming
\* false and the send button enabled.
C23_StreamingWhileInFlight ==
    /\ [](isStreaming <=> pc # "idle")
    /\ [][Returns => (~isStreaming' /\ ~sendDisabled')]_vars
\* a send whose request or read failed has ended and the controller is idle
C23_Witness ==
    /\ Settled /\ obs.failed
    /\ ~isStreaming /\ ~sendDisabled

\* C24: once a send has completed (sendMessage has returned, whatever the
\* stream did), the typing indicator created for it is no longer displayed.
C24_TypingIndicatorGone == [][Returns => ~InDom(dom', TypingId(send'.no))]_vars

\* C25: whenever no operation of ChatbotUI is in progress, the active thread
\* is none or a thread of the current paper that is present in threads[].
C25_ActiveThreadListed ==
    (tasks = {} /\ pc = "idle") =>
        \/ currentThreadId = 0
        \/ \E i \in 1..Len(threads) : threads[i].id = currentThreadId

\* the request for the history of task's thread fails in this step
LoadFailed(task) ==
    /\ task.op = "load" /\ Answered(task)
    /\ status' = ShowStatus("Failed to load conversation", "error")

\* C26: when loadThread(t) fails to fetch t's history (and nothing else is in
\* progress), an error status is shown and the client state is as before the
\* call: messages[] is untouched and it is still the history of the active
\* thread (empty with no active thread).
C26_FailedLoadKeepsState ==
    [][\A task \in Awaiting({"load"}, "history") :
        (LoadFailed(task) /\ tasks = {task}) =>
            /\ status'.type = "error"
            /\ messages' = messages
            /\ messages' = IF currentThreadId' = 0 THEN <<>> ELSE History(currentThreadId')]_vars

\* the errors handled since the log was last cleared
SinceCleared == handled.n - handled.cleared

\* C27: after any sequence of handleError calls, silent or not, errorLog holds
\* at most maxLogSize entries, newest first, and they are the most recent
\* errors handled, the oldest being dropped; getErrorLog(n) returns the n most
\* recent of them; clearErrorLog leaves the log empty.
C27_LogHoldsMostRecent ==
    /\ [](/\ Len(errorLog) <= MaxLogSize
          /\ Len(errorLog) = IF SinceCleared < MaxLogSize THEN SinceCleared ELSE MaxLogSize
          /\ \A i \in 1..Len(errorLog) : errorLog[i].timestamp = handled.n - i + 1
          /\ \A n \in 0..(MaxLogSize + 1) :
                /\ Len(GetErrorLog(errorLog, n)) = IF n < Len(errorLog) THEN n ELSE Len(errorLog)
                /\ \A i \in 1..Len(GetErrorLog(errorLog, n)) :
                      GetErrorLog(errorLog, n)[i].timestamp = handled.n - i + 1)
    /\ [][handled'.cleared # handled.cleared => errorLog' = <<>>]_vars
\* more errors than the log holds have been handled: the log is full and the
\* oldest of them is gone
C27_Witness ==
    /\ SinceCleared = MaxLogSize + 1
    /\ Len(errorLog) = MaxLogSize
    /\ errorLog[MaxLogSize].timestamp = handled.cleared + 2

\* the calls that were allowed at a time in [from, from + timeWindow)
AllowedWithin(r, from) ==
    {i \in 1..Len(r.allowedAt) : r.allowedAt[i] >= from /\ r.allowedAt[i] < from + r.timeWindow}
\* what the claim says of a limiter r after its latest call
RateLimitKept(r) ==
    /\ \A from \in 0..MaxClock : Cardinality(AllowedWithin(r, from)) <= r.maxRequests
    /\ r.last.n > 0 =>
          IF r.last.allowed THEN r.last.resetIn = 0
          ELSE r.last.resetIn > 0 /\ r.last.resetIn <= r.timeWindow

\* C28 as stated: for any maxRequests and timeWindow and a clock that does not
\* go back, at most maxRequests calls of checkRateLimit are allowed within any
\* interval of length timeWindow; an allowed call reports resetIn = 0, a denied
\* one a resetIn with 0 < resetIn <= timeWindow.
C28_RateLimitKept == RateLimitKept(rl)

\* C28 amended: the same for maxRequests >= 1, and a denied call leaves the
\* stored requests and the allowed calls as they were.
C28_RateLimitKeptAboveZero ==
    /\ [](rl.maxRequests >= 1 => RateLimitKept(rl))
    /\ [][(rl'.last.n # rl.last.n /\ ~rl'.last.allowed) =>
            (rl'.requests = rl.requests /\ rl'.allowedAt = rl.allowedAt)]_vars
\* a call was denied after maxRequests >= 1 calls had been allowed
C28_Witness ==
    /\ rl.maxRequests >= 1
    /\ rl.last.n > rl.maxRequests
    /\ ~rl.last.allowed
    /\ Len(rl.allowedAt) >= rl.maxRequests

\* C29: once the calls of loadTheme of a page, overlapping or not and the one
\* of init included, have all returned true, currentTheme, the theme class of
\* the root element, its data-theme attribute and the stored preference are
\* the theme of the most recent call.
C29_LatestThemeWins ==
    (tm.pending = {} /\ ~tm.failed) =>
        /\ tm.currentTheme = tm.recent
        /\ Applied(tm, tm.recent)
        /\ tm.stored = tm.recent

\* C30: loadTheme returns false exactly when the theme was not applied: a
\* call that returns false leaves currentTheme, the theme class, data-theme
\* and the stored preference as they were; a call that returns true has its
\* theme's stylesheet loaded (the base theme 'light' has none) and all four
\* equal to its theme, also on a retry after a failed load.
C30_ReturnTellsApplied ==
    [][ThemeReturns =>
        IF tm'.last.result
        THEN /\ tm'.last.theme \in CssThemes => tm'.links[tm'.last.theme] = "loaded"
             /\ tm'.currentTheme = tm'.last.theme
             /\ Applied(tm', tm'.last.theme)
             /\ tm'.stored = tm'.last.theme
        ELSE /\ tm'.currentTheme = tm.currentTheme
             /\ tm'.classList = tm.classList
             /\ tm'.dataTheme = tm.dataTheme
             /\ tm'.stored = tm.stored]_vars

====
